---- MODULE Spec2Model ----
(***************************************************************************)
(* UnifiedDatabaseEngine.batch of splurge_sql_runner/database/engines.py   *)
(* as a state machine: one caller runs batches on one engine object, and   *)
(* every call the code makes on the driver (create_engine, connect,        *)
(* fetch_all/execute, commit, rollback, close, dispose) is a step whose    *)
(* outcome (return or raise, and the message raised) the driver chooses.   *)
(*                                                                         *)
(* Spec is that one caller, in batch or in test_connection; SpecConc is     *)
(* several threads in the methods that read and write self._engine, each   *)
(* read and write of the field a step of its own.                          *)
(*                                                                         *)
(* Text is modelled as it is compared by the code: an error message is a   *)
(* sequence of characters, so that str(e).lower() and the substring tests  *)
(* of batch's handler are computed; SQL text is a sequence of tokens.      *)
(***************************************************************************)
EXTENDS Integers, Sequences, FiniteSets, TLC

(* ------------------------------ bounds --------------------------------- *)
\* the threads that share one engine object
NumThreads == 2
\* most engines create_engine makes in one run
MaxEngines == 3
\* longest input text, in tokens
MaxLen == 5
\* most rows a fetch returns
MaxRows == 1

(* ---------------------------- configuration --------------------------- *)
\* RetryConfig's maxAttempts: the attempts the retry strategy allows in all
maxAttempts == 3

(* --------------------------- message texts ----------------------------- *)
\* "SQL execution failed: "
MSG_EXECUTE_PREFIX ==
    <<"S","Q","L"," ","e","x","e","c","u","t","i","o","n"," ","f","a","i","l","e","d",":"," ">>
\* "Data fetch failed: "
MSG_FETCH_PREFIX ==
    <<"D","a","t","a"," ","f","e","t","c","h"," ","f","a","i","l","e","d",":"," ">>
\* "Commit failed: "
MSG_COMMIT_PREFIX ==
    <<"C","o","m","m","i","t"," ","f","a","i","l","e","d",":"," ">>
\* "Rollback failed: "
MSG_ROLLBACK_PREFIX ==
    <<"R","o","l","l","b","a","c","k"," ","f","a","i","l","e","d",":"," ">>
\* "Failed to create database engine: "
MSG_ENGINE_PREFIX ==
    <<"F","a","i","l","e","d"," ","t","o"," ","c","r","e","a","t","e"," ","d","a","t","a","b","a","s","e"," ","e","n","g","i","n","e",":"," ">>
\* "Failed to create connection: "
MSG_CONNECT_PREFIX ==
    <<"F","a","i","l","e","d"," ","t","o"," ","c","r","e","a","t","e"," ","c","o","n","n","e","c","t","i","o","n",":"," ">>
\* "Database connection failed: "
MSG_BATCH_PREFIX ==
    <<"D","a","t","a","b","a","s","e"," ","c","o","n","n","e","c","t","i","o","n"," ","f","a","i","l","e","d",":"," ">>
\* "connection"
PAT_CONNECTION ==
    <<"c","o","n","n","e","c","t","i","o","n">>
\* "connect"
PAT_CONNECT ==
    <<"c","o","n","n","e","c","t">>
\* "unable to connect"
PAT_UNABLE ==
    <<"u","n","a","b","l","e"," ","t","o"," ","c","o","n","n","e","c","t">>
\* "connection refused"
PAT_REFUSED ==
    <<"c","o","n","n","e","c","t","i","o","n"," ","r","e","f","u","s","e","d">>
\* "timeout"
PAT_TIMEOUT ==
    <<"t","i","m","e","o","u","t">>
\* "no such table"
MSG_NO_TABLE ==
    <<"n","o"," ","s","u","c","h"," ","t","a","b","l","e">>
\* "lock Timeout"
MSG_LOCK_TIMEOUT ==
    <<"l","o","c","k"," ","T","i","m","e","o","u","t">>
\* "cannot access local variable 'stmt' where it is not associated with a value"
MSG_UNBOUND_311 ==
    <<"c","a","n","n","o","t"," ","a","c","c","e","s","s"," ","l","o","c","a","l"," ","v","a","r","i","a","b","l","e"," ","'","s","t","m","t","'"," ","w","h","e","r","e"," ","i","t"," ","i","s"," ","n","o","t"," ","a","s","s","o","c","i","a","t","e","d"," ","w","i","t","h"," ","a"," ","v","a","l","u","e">>
\* "local variable 'stmt' referenced before assignment"
MSG_UNBOUND_310 ==
    <<"l","o","c","a","l"," ","v","a","r","i","a","b","l","e"," ","'","s","t","m","t","'"," ","r","e","f","e","r","e","n","c","e","d"," ","b","e","f","o","r","e"," ","a","s","s","i","g","n","m","e","n","t">>
\* "unterminated quote"
MSG_PARSE_QUOTE ==
    <<"u","n","t","e","r","m","i","n","a","t","e","d"," ","q","u","o","t","e">>
\* "unterminated quote at 'connect"
MSG_PARSE_QUOTE_AT ==
    <<"u","n","t","e","r","m","i","n","a","t","e","d"," ","q","u","o","t","e"," ","a","t"," ","'","c","o","n","n","e","c","t">>
\* "ABCDEFGHIJKLMNOPQRSTUVWXYZ"
UpperLetters ==
    <<"A","B","C","D","E","F","G","H","I","J","K","L","M","N","O","P","Q","R","S","T","U","V","W","X","Y","Z">>
\* "abcdefghijklmnopqrstuvwxyz"
LowerLetters ==
    <<"a","b","c","d","e","f","g","h","i","j","k","l","m","n","o","p","q","r","s","t","u","v","w","x","y","z">>

\* the messages the driver (SQLAlchemy, the DBAPI) raises with
DriverMessages ==
    {MSG_NO_TABLE, MSG_LOCK_TIMEOUT}

\* the messages of the UnboundLocalError that reading an unbound local raises
UnboundMessages ==
    {MSG_UNBOUND_311, MSG_UNBOUND_310}

\* the messages a SqlParseError of the splitter carries
ParseMessages ==
    {MSG_PARSE_QUOTE, MSG_PARSE_QUOTE_AT}

(* --------------------------- text operations --------------------------- *)
\* str.lower() on one character
LowerChar(c) ==
    IF \E k \in 1..Len(UpperLetters) : UpperLetters[k] = c
    THEN LowerLetters[CHOOSE k \in 1..Len(UpperLetters) : UpperLetters[k] = c]
    ELSE c

\* str.lower()
Lower(s) ==
    [k \in 1..Len(s) |-> LowerChar(s[k])]

\* pat in s
Contains(pat, s) ==
    \E k \in 1..(Len(s) - Len(pat) + 1) : SubSeq(s, k, k + Len(pat) - 1) = pat

(* ------------------------------ exceptions ----------------------------- *)
NoException ==
    [type |-> "None", msg |-> <<>>]

DatabaseConnectionError(m) ==
    [type |-> "DatabaseConnectionError", msg |-> m]

DatabaseOperationError(m) ==
    [type |-> "DatabaseOperationError", msg |-> m]

SqlParseError(m) ==
    [type |-> "SqlParseError", msg |-> m]

UnboundLocalError(m) ==
    [type |-> "UnboundLocalError", msg |-> m]

\* str(e)
Str(e) ==
    e.msg

\* SqlAlchemyConnection.execute's except clause
ExecuteError(m) ==
    DatabaseOperationError(MSG_EXECUTE_PREFIX \o m)

\* SqlAlchemyConnection.fetch_all's except clause
FetchAllError(m) ==
    DatabaseOperationError(MSG_FETCH_PREFIX \o m)

\* SqlAlchemyConnection.commit's except clause
CommitError(m) ==
    DatabaseOperationError(MSG_COMMIT_PREFIX \o m)

\* SqlAlchemyConnection.rollback's except clause
RollbackError(m) ==
    DatabaseOperationError(MSG_ROLLBACK_PREFIX \o m)

\* UnifiedDatabaseEngine._create_engine's except clause
CreateEngineError(m) ==
    DatabaseOperationError(MSG_ENGINE_PREFIX \o m)

\* UnifiedDatabaseEngine.create_connection's except clause
CreateConnectionError(m) ==
    DatabaseConnectionError(MSG_CONNECT_PREFIX \o m)

\* the handler's test with the message tests left out
IsConnectionFailureByType(e) ==
    e.type = "DatabaseConnectionError"

\* the handler's test with the timeout test left out
IsConnectionFailureNoTimeout(e) ==
    LET low == Lower(Str(e)) IN
      \/ e.type = "DatabaseConnectionError"
      \/ Contains(PAT_CONNECTION, low)
      \/ Contains(PAT_CONNECT, low)
      \/ Contains(PAT_UNABLE, low)
      \/ Contains(PAT_REFUSED, low)

\* the test of batch's handler: is this a connection error, by type or message
IsConnectionFailure(e) ==
    LET low == Lower(Str(e)) IN
      \/ e.type = "DatabaseConnectionError"
      \/ Contains(PAT_CONNECTION, low)
      \/ Contains(PAT_CONNECT, low)
      \/ Contains(PAT_UNABLE, low)
      \/ Contains(PAT_REFUSED, low)
      \/ Contains(PAT_TIMEOUT, low)

(* ------------------------ splitter and classifier ---------------------- *)
FETCH_STATEMENT == "fetch"
EXECUTE_STATEMENT == "execute"
ERROR_STATEMENT == "error"

\* the tokens of SQL text: two keywords, the delimiter and the quote
Tokens ==
    {"SELECT", "INSERT", ";", "'"}

\* every input text of at most MaxLen tokens
Inputs ==
    UNION {[1..n -> Tokens] : n \in 0..MaxLen}

\* the statement list with cur flushed into it; an empty statement is dropped
Flush(acc, cur) ==
    IF cur = <<>> THEN acc ELSE Append(acc, cur)

\* the scan of the splitter from token k on: a delimiter outside a quoted
\* literal ends a statement, a quoted literal is kept verbatim, and a quote
\* left open at the end of the input is a parse error
RECURSIVE Scan(_, _, _, _, _)
Scan(q, k, inQuote, cur, acc) ==
    IF k > Len(q)
    THEN IF inQuote
         THEN [ok |-> FALSE, statements |-> <<>>]
         ELSE [ok |-> TRUE, statements |-> Flush(acc, cur)]
    ELSE IF q[k] = "'"
         THEN Scan(q, k + 1, ~inQuote, Append(cur, q[k]), acc)
         ELSE IF q[k] = ";" /\ ~inQuote
              THEN Scan(q, k + 1, inQuote, <<>>, Flush(acc, cur))
              ELSE Scan(q, k + 1, inQuote, Append(cur, q[k]), acc)

\* parse_sql_statements(sql_query)
parse_sql_statements(q) ==
    Scan(q, 1, FALSE, <<>>, <<>>)

\* detect_statement_type(stmt): fetch when the leading keyword returns rows
detect_statement_type(s) ==
    IF Len(s) > 0 /\ s[1] = "SELECT" THEN FETCH_STATEMENT ELSE EXECUTE_STATEMENT

(* ---------------------------- result entries --------------------------- *)
\* Python's None, and a value that is not None, as a sequence of at most one
None == <<>>
Some(v) == <<v>>

\* a fetch entry that leaves the count out
FetchEntryNoCount(s, rows) ==
    [statement |-> s, statement_type |-> FETCH_STATEMENT,
     result |-> rows, row_count |-> None]

\* the entry of a statement that returned rows
FetchEntry(s, rows) ==
    [statement |-> s, statement_type |-> FETCH_STATEMENT,
     result |-> rows, row_count |-> Some(Len(rows))]

\* the entry of a statement that returned no rows
ExecuteEntry(s) ==
    [statement |-> s, statement_type |-> EXECUTE_STATEMENT,
     result |-> TRUE, row_count |-> None]

\* the entry of a failure
ErrorEntry(s, m) ==
    [statement |-> s, statement_type |-> ERROR_STATEMENT, error |-> m]

\* the rows a fetch may return: row mappings, told apart by their number
RowSets ==
    {[k \in 1..n |-> [id |-> k]] : n \in 0..MaxRows}

(* -------------------------------- state -------------------------------- *)
VARIABLES
    engine,      \* self._engine: "None" or "Engine"
    pc,          \* where the caller is inside batch
    sql_query,   \* batch's argument
    statements,  \* _execute_batch_statements' statements
    results,     \* _execute_batch_statements' results
    i,           \* how many statements the for loop has taken
    stmt,        \* the loop variable stmt; Unbound before the first iteration
    exc,         \* the exception caught or in flight, NoException when none
    calls,       \* the calls made on the connection of this batch, in order
    acq,         \* how create_connection ended in this batch
    split,       \* how parse_sql_statements ended in this batch
    outcome,     \* how batch ended: "none", "returned" or "raised"
    ret,         \* the list batch returned
    raised,      \* the exception batch raised
    attempts,    \* the connect calls create_connection made in this call
    tc_result,   \* what test_connection returned: "none", "True" or "False"
    \* one engine object shared by several threads
    self_engine, \* self._engine as the threads see it: 0 for None, or an engine
    created,     \* how many engines create_engine has made (they are 1..created)
    disposed,    \* the engines dispose() has been called on
    method,      \* per thread: the method it is in, "none" when in none
    tpc,         \* per thread: where it is in that method
    new_engine   \* per thread: the engine _create_engine returned to it, 0 if none

\* the state of the one-caller view and of the several-threads view
seqVars ==
    <<engine, pc, sql_query, statements, results, i, stmt, exc, calls, acq,
      split, outcome, ret, raised, attempts, tc_result>>

concVars ==
    <<self_engine, created, disposed, method, tpc, new_engine>>

vars ==
    <<seqVars, concVars>>

\* a local variable that no assignment has bound yet (a statement is never
\* empty, so the empty text is free to stand for it)
Unbound == <<>>

\* one call on the connection: the method, its argument, and whether it
\* returned (ok) or raised
Call(op, arg, ok) ==
    [op |-> op, arg |-> arg, ok |-> ok]

Threads ==
    1..NumThreads

Init ==
    /\ engine = "None"
    /\ pc = "idle"
    /\ sql_query = <<>>
    /\ statements = <<>>
    /\ results = <<>>
    /\ i = 0
    /\ stmt = Unbound
    /\ exc = NoException
    /\ calls = <<>>
    /\ acq = "none"
    /\ split = "none"
    /\ outcome = "none"
    /\ ret = <<>>
    /\ raised = NoException
    /\ attempts = 0
    /\ tc_result = "none"
    /\ self_engine = 0
    /\ created = 0
    /\ disposed = {}
    /\ method = [t \in Threads |-> "none"]
    /\ tpc = [t \in Threads |-> "idle"]
    /\ new_engine = [t \in Threads |-> 0]

(* ------------------------------- actions ------------------------------- *)
\* the caller calls batch(sql_query) with some text
Batch ==
    /\ pc = "idle"
    /\ \E q \in Inputs : sql_query' = q
    /\ pc' = "create_connection"
    /\ UNCHANGED <<engine, statements, results, i, stmt, exc, calls, acq,
                   split, outcome, ret, raised>>
    /\ UNCHANGED <<attempts, tc_result>>
    /\ UNCHANGED concVars

\* self.create_connection(), called at pc = here: the engine is created when
\* none is held, then one connect call is made on it; the caller goes on at
\* okPc when a connection is returned and at failPc when an error is raised
CreateConnectionFrom(here, okPc, failPc) ==
    /\ pc = here
    /\ \/ /\ engine = "None"
          /\ \E m \in DriverMessages :
                /\ exc' = CreateEngineError(m)
                /\ acq' = "engine_failed"
                /\ pc' = failPc
                /\ UNCHANGED <<engine, attempts>>
       \/ /\ engine' = "Engine"
          /\ attempts' = attempts + 1
          /\ \/ /\ acq' = "ok"
                /\ pc' = okPc
                /\ UNCHANGED exc
             \/ \E m \in DriverMessages :
                   /\ exc' = CreateConnectionError(m)
                   /\ acq' = "connect_failed"
                   /\ pc' = failPc
    /\ UNCHANGED <<sql_query, statements, results, i, stmt, calls, split,
                   outcome, ret, raised, tc_result>>
    /\ UNCHANGED concVars

\* with self.create_connection() as conn, in batch
CreateConnection ==
    CreateConnectionFrom("create_connection", "split", "handler")

\* the split made inside the try block, so that its failure is rolled back
ParseStatementsInsideTry ==
    /\ pc = "split"
    /\ LET r == parse_sql_statements(sql_query) IN
         IF r.ok
         THEN /\ statements' = r.statements
              /\ split' = "ok"
              /\ pc' = "loop"
              /\ UNCHANGED exc
         ELSE /\ \E m \in ParseMessages : exc' = SqlParseError(m)
              /\ split' = "failed"
              /\ pc' = "rollback"
              /\ UNCHANGED statements
    /\ results' = <<>>
    /\ UNCHANGED <<engine, sql_query, i, stmt, calls, acq, outcome, ret, raised>>
    /\ UNCHANGED <<attempts, tc_result>>
    /\ UNCHANGED concVars

\* statements = parse_sql_statements(sql_query); results = []
ParseStatements ==
    /\ pc = "split"
    /\ LET r == parse_sql_statements(sql_query) IN
         IF r.ok
         THEN /\ statements' = r.statements
              /\ split' = "ok"
              /\ pc' = "loop"
              /\ UNCHANGED exc
         ELSE /\ \E m \in ParseMessages : exc' = SqlParseError(m)
              /\ split' = "failed"
              /\ pc' = "exit"
              /\ UNCHANGED statements
    /\ results' = <<>>
    /\ UNCHANGED <<engine, sql_query, i, stmt, calls, acq, outcome, ret, raised>>
    /\ UNCHANGED <<attempts, tc_result>>
    /\ UNCHANGED concVars

\* the connection method a statement is run with
StatementCall(s) ==
    IF detect_statement_type(s) = FETCH_STATEMENT THEN "fetch_all" ELSE "execute"

\* a loop that goes on to the next statement after a failure
OnStatementErrorContinue ==
    "loop"

\* a loop with no except clause around it: the failure leaves the function
OnStatementErrorPropagates ==
    "exit"

\* where control goes when a statement's call raises: out of the loop, into
\* the except clause
OnStatementError ==
    "rollback"

\* one iteration of the for loop: the next statement is classified and run
ExecStatement ==
    /\ pc = "loop"
    /\ i < Len(statements)
    /\ LET s == statements[i + 1] IN
         /\ stmt' = s
         /\ i' = i + 1
         /\ \/ /\ calls' = Append(calls, Call(StatementCall(s), s, TRUE))
               /\ IF StatementCall(s) = "fetch_all"
                  THEN \E rows \in RowSets :
                          results' = Append(results, FetchEntry(s, rows))
                  ELSE results' = Append(results, ExecuteEntry(s))
               /\ pc' = "loop"
               /\ UNCHANGED exc
            \/ /\ calls' = Append(calls, Call(StatementCall(s), s, FALSE))
               /\ \E m \in DriverMessages :
                     exc' = IF StatementCall(s) = "fetch_all"
                            THEN FetchAllError(m) ELSE ExecuteError(m)
               /\ pc' = OnStatementError
               /\ UNCHANGED results
    /\ UNCHANGED <<engine, sql_query, statements, acq, split, outcome, ret, raised>>
    /\ UNCHANGED <<attempts, tc_result>>
    /\ UNCHANGED concVars

\* a batch that ends without committing
CommitForgotten ==
    /\ pc = "loop"
    /\ i = Len(statements)
    /\ pc' = "exit"
    /\ UNCHANGED <<engine, sql_query, statements, results, i, stmt, exc,
                   calls, acq, split, outcome, ret, raised>>
    /\ UNCHANGED <<attempts, tc_result>>
    /\ UNCHANGED concVars

\* a commit made after the try block, so that its failure is not rolled back
CommitOutsideTry ==
    /\ pc = "loop"
    /\ i = Len(statements)
    /\ \/ /\ calls' = Append(calls, Call("commit", <<>>, TRUE))
          /\ UNCHANGED exc
       \/ /\ calls' = Append(calls, Call("commit", <<>>, FALSE))
          /\ \E m \in DriverMessages : exc' = CommitError(m)
    /\ pc' = "exit"
    /\ UNCHANGED <<engine, sql_query, statements, results, i, stmt, acq,
                   split, outcome, ret, raised>>
    /\ UNCHANGED <<attempts, tc_result>>
    /\ UNCHANGED concVars

\* conn.commit() after the loop, inside the try
Commit ==
    /\ pc = "loop"
    /\ i = Len(statements)
    /\ \/ /\ calls' = Append(calls, Call("commit", <<>>, TRUE))
          /\ pc' = "exit"
          /\ UNCHANGED exc
       \/ /\ calls' = Append(calls, Call("commit", <<>>, FALSE))
          /\ \E m \in DriverMessages : exc' = CommitError(m)
          /\ pc' = "rollback"
    /\ UNCHANGED <<engine, sql_query, statements, results, i, stmt, acq,
                   split, outcome, ret, raised>>
    /\ UNCHANGED <<attempts, tc_result>>
    /\ UNCHANGED concVars

\* an except clause that commits what the batch did so far
ExceptClauseCommits ==
    "commit"

\* the call the except clause makes on the connection
ExceptClauseCall ==
    "rollback"

\* the except clause: conn.rollback(), then the error entry for stmt; an
\* exception raised here (by rollback, or by reading stmt unbound) leaves
\* _execute_batch_statements
Rollback ==
    /\ pc = "rollback"
    /\ \/ /\ calls' = Append(calls, Call(ExceptClauseCall, <<>>, TRUE))
          /\ IF stmt = Unbound
             THEN /\ \E m \in UnboundMessages : exc' = UnboundLocalError(m)
                  /\ UNCHANGED results
             ELSE /\ results' = Append(results, ErrorEntry(stmt, Str(exc)))
                  /\ exc' = NoException
       \/ /\ calls' = Append(calls, Call(ExceptClauseCall, <<>>, FALSE))
          /\ \E m \in DriverMessages : exc' = RollbackError(m)
          /\ UNCHANGED results
    /\ pc' = "exit"
    /\ UNCHANGED <<engine, sql_query, statements, i, stmt, acq, split,
                   outcome, ret, raised>>
    /\ UNCHANGED <<attempts, tc_result>>
    /\ UNCHANGED concVars

\* a connection that is closed on the way out of a successful body only
ExitClosesOnSuccess(e) ==
    e = NoException

\* does the with statement call __exit__ when its body left with exception e
ExitCloses(e) ==
    TRUE

\* leaving the with statement: __exit__ calls close(), which swallows what
\* the driver raises; then the results are returned or the exception goes on
\* to batch's handler
Exit ==
    /\ pc = "exit"
    /\ IF ExitCloses(exc)
       THEN \E ok \in BOOLEAN : calls' = Append(calls, Call("close", <<>>, ok))
       ELSE UNCHANGED calls
    /\ IF exc = NoException
       THEN /\ outcome' = "returned"
            /\ ret' = results
            /\ pc' = "done"
       ELSE /\ pc' = "handler"
            /\ UNCHANGED <<outcome, ret>>
    /\ UNCHANGED <<engine, sql_query, statements, results, i, stmt, exc, acq,
                   split, raised>>
    /\ UNCHANGED <<attempts, tc_result>>
    /\ UNCHANGED concVars

\* batch's except clause: a connection failure is raised, any other failure
\* is returned as one error entry for the whole text
BatchHandler ==
    /\ pc = "handler"
    /\ IF IsConnectionFailure(exc)
       THEN /\ outcome' = "raised"
            /\ raised' = DatabaseConnectionError(MSG_BATCH_PREFIX \o Str(exc))
            /\ UNCHANGED ret
       ELSE /\ outcome' = "returned"
            /\ ret' = <<ErrorEntry(sql_query, Str(exc))>>
            /\ UNCHANGED raised
    /\ pc' = "done"
    /\ UNCHANGED <<engine, sql_query, statements, results, i, stmt, exc,
                   calls, acq, split>>
    /\ UNCHANGED <<attempts, tc_result>>
    /\ UNCHANGED concVars

\* the caller takes what batch returned or raised; the locals of the call
\* are gone and only the engine object's state is left
Return ==
    /\ pc \in {"done", "tc_done"}
    /\ pc' = "idle"
    /\ sql_query' = <<>>
    /\ statements' = <<>>
    /\ results' = <<>>
    /\ i' = 0
    /\ stmt' = Unbound
    /\ exc' = NoException
    /\ calls' = <<>>
    /\ acq' = "none"
    /\ split' = "none"
    /\ outcome' = "none"
    /\ ret' = <<>>
    /\ raised' = NoException
    /\ UNCHANGED engine
    /\ attempts' = 0
    /\ tc_result' = "none"
    /\ UNCHANGED concVars

\* "Single row fetch failed: "
MSG_FETCH_ONE_PREFIX ==
    <<"S","i","n","g","l","e"," ","r","o","w"," ","f","e","t","c","h"," ","f","a","i","l","e","d",":"," ">>

\* SqlAlchemyConnection.fetch_one's except clause
FetchOneError(m) ==
    DatabaseOperationError(MSG_FETCH_ONE_PREFIX \o m)

\* the text test_connection probes the database with
PROBE_SQL ==
    <<"SELECT", "1">>

\* the caller calls test_connection()
TestConnection ==
    /\ pc = "idle"
    /\ pc' = "tc_create"
    /\ UNCHANGED <<engine, sql_query, statements, results, i, stmt, exc, calls,
                   acq, split, outcome, ret, raised, attempts, tc_result>>
    /\ UNCHANGED concVars

\* with self.create_connection() as conn, in test_connection
TcCreateConnection ==
    CreateConnectionFrom("tc_create", "tc_probe", "tc_except")

\* conn.fetch_one("SELECT 1")
Probe ==
    /\ pc = "tc_probe"
    /\ \/ /\ calls' = Append(calls, Call("fetch_one", PROBE_SQL, TRUE))
          /\ UNCHANGED exc
       \/ /\ calls' = Append(calls, Call("fetch_one", PROBE_SQL, FALSE))
          /\ \E m \in DriverMessages : exc' = FetchOneError(m)
    /\ pc' = "tc_exit"
    /\ UNCHANGED <<engine, sql_query, statements, results, i, stmt, acq, split,
                   outcome, ret, raised, attempts, tc_result>>
    /\ UNCHANGED concVars

\* leaving test_connection's with statement: __exit__ calls close(); then
\* return True, or the exception goes on to the except clause
TcExit ==
    /\ pc = "tc_exit"
    /\ IF ExitCloses(exc)
       THEN \E ok \in BOOLEAN : calls' = Append(calls, Call("close", <<>>, ok))
       ELSE UNCHANGED calls
    /\ IF exc = NoException
       THEN /\ tc_result' = "True"
            /\ pc' = "tc_done"
       ELSE /\ pc' = "tc_except"
            /\ UNCHANGED tc_result
    /\ UNCHANGED <<engine, sql_query, statements, results, i, stmt, exc, acq,
                   split, outcome, ret, raised, attempts>>
    /\ UNCHANGED concVars

\* an except clause that falls through to the return True
TcExceptReturnsTrue ==
    /\ pc = "tc_except"
    /\ tc_result' = "True"
    /\ pc' = "tc_done"
    /\ UNCHANGED <<engine, sql_query, statements, results, i, stmt, exc, calls,
                   acq, split, outcome, ret, raised, attempts>>
    /\ UNCHANGED concVars

\* test_connection's except clause: the error is logged, False is returned
TcExcept ==
    /\ pc = "tc_except"
    /\ tc_result' = "False"
    /\ pc' = "tc_done"
    /\ UNCHANGED <<engine, sql_query, statements, results, i, stmt, exc, calls,
                   acq, split, outcome, ret, raised, attempts>>
    /\ UNCHANGED concVars

\* UnifiedDatabaseEngine.close(): dispose the engine when one is held; when
\* dispose raises, the engine is kept
EngineClose ==
    /\ pc = "idle"
    /\ engine # "None"
    /\ \E ok \in BOOLEAN : engine' = IF ok THEN "None" ELSE engine
    /\ UNCHANGED <<pc, sql_query, statements, results, i, stmt, exc, calls,
                   acq, split, outcome, ret, raised>>
    /\ UNCHANGED <<attempts, tc_result>>
    /\ UNCHANGED concVars

Next ==
    \/ Batch
    \/ CreateConnection
    \/ ParseStatements
    \/ ExecStatement
    \/ Commit
    \/ Rollback
    \/ Exit
    \/ BatchHandler
    \/ Return
    \/ EngineClose
    \/ TestConnection
    \/ TcCreateConnection
    \/ Probe
    \/ TcExit
    \/ TcExcept

Spec ==
    Init /\ [][Next]_vars

(* ------------------ one engine object, several threads ---------------- *)
\* the methods of the engine that read or write self._engine; batch does so
\* through the create_connection it starts with
EngineMethods ==
    {"batch", "create_connection", "create_connection_pool", "close"}

\* thread t returns from its method
Returned(t) ==
    /\ tpc' = [tpc EXCEPT ![t] = "idle"]
    /\ method' = [method EXCEPT ![t] = "none"]
    /\ new_engine' = [new_engine EXCEPT ![t] = 0]

\* thread t calls one of the methods
CallMethod(t) ==
    /\ tpc[t] = "idle"
    /\ \E m \in EngineMethods : method' = [method EXCEPT ![t] = m]
    /\ tpc' = [tpc EXCEPT ![t] = "check"]
    /\ UNCHANGED <<self_engine, created, disposed, new_engine>>
    /\ UNCHANGED seqVars

\* if not self._engine (create_connection, create_connection_pool), or
\* if self._engine (close): the field is read, and acted on in later steps
CheckEngine(t) ==
    /\ tpc[t] = "check"
    /\ IF method[t] = "close"
       THEN IF self_engine # 0
            THEN /\ tpc' = [tpc EXCEPT ![t] = "dispose"]
                 /\ UNCHANGED <<method, new_engine>>
            ELSE Returned(t)
       ELSE /\ tpc' = [tpc EXCEPT ![t] = IF self_engine = 0 THEN "create" ELSE "use"]
            /\ UNCHANGED <<method, new_engine>>
    /\ UNCHANGED <<self_engine, created, disposed>>
    /\ UNCHANGED seqVars

\* self._create_engine(): a new engine is returned, or an error is raised and
\* leaves the method
CreateEngine(t) ==
    /\ tpc[t] = "create"
    /\ \/ /\ created < MaxEngines
          /\ created' = created + 1
          /\ new_engine' = [new_engine EXCEPT ![t] = created + 1]
          /\ tpc' = [tpc EXCEPT ![t] = "assign"]
          /\ UNCHANGED method
       \/ /\ Returned(t)
          /\ UNCHANGED created
    /\ UNCHANGED <<self_engine, disposed>>
    /\ UNCHANGED seqVars

\* self._engine = (what _create_engine returned)
AssignEngine(t) ==
    /\ tpc[t] = "assign"
    /\ self_engine' = new_engine[t]
    /\ tpc' = [tpc EXCEPT ![t] = "use"]
    /\ UNCHANGED <<created, disposed, method, new_engine>>
    /\ UNCHANGED seqVars

\* self._engine.connect(), or SqlAlchemyConnectionPool(self._engine, ...):
\* the field is read again; nothing the method does after it touches the field
UseEngine(t) ==
    /\ tpc[t] = "use"
    /\ Returned(t)
    /\ UNCHANGED <<self_engine, created, disposed>>
    /\ UNCHANGED seqVars

\* self._engine.dispose() in close(): the field is read again; dispose
\* returns, or it raises (as does the read of a field that is None by now)
\* and the except clause leaves the field as it is
DisposeEngine(t) ==
    /\ tpc[t] = "dispose"
    /\ \/ /\ self_engine # 0
          /\ disposed' = disposed \cup {self_engine}
          /\ tpc' = [tpc EXCEPT ![t] = "clear"]
          /\ UNCHANGED <<method, new_engine>>
       \/ /\ Returned(t)
          /\ UNCHANGED disposed
    /\ UNCHANGED <<self_engine, created>>
    /\ UNCHANGED seqVars

\* self._engine = None in close()
ClearEngine(t) ==
    /\ tpc[t] = "clear"
    /\ self_engine' = 0
    /\ Returned(t)
    /\ UNCHANGED <<created, disposed>>
    /\ UNCHANGED seqVars

NextConc ==
    \/ \E t \in Threads : CallMethod(t)
    \/ \E t \in Threads : CheckEngine(t)
    \/ \E t \in Threads : CreateEngine(t)
    \/ \E t \in Threads : AssignEngine(t)
    \/ \E t \in Threads : UseEngine(t)
    \/ \E t \in Threads : DisposeEngine(t)
    \/ \E t \in Threads : ClearEngine(t)

SpecConc ==
    Init /\ [][NextConc]_vars

(* ------------------------- what the claims read ------------------------ *)
IsStatementCall(c) ==
    c.op \in {"fetch_all", "execute"}

\* the fetch_all/execute calls of this batch, in the order they were made
StatementCalls ==
    SelectSeq(calls, IsStatementCall)

\* how many calls of one method were made on the connection
CountCalls(op) ==
    Cardinality({k \in 1..Len(calls) : calls[k].op = op})

\* some statement's fetch_all/execute call raised in this batch
StatementFailed ==
    \E k \in 1..Len(calls) : IsStatementCall(calls[k]) /\ ~calls[k].ok

\* some call of the method raised in this batch
CallFailed(op) ==
    \E k \in 1..Len(calls) : calls[k].op = op /\ ~calls[k].ok

\* the message names a connection problem: "connect" or "timeout" in it,
\* whatever the case of the letters
MentionsConnectOrTimeout(m) ==
    LET low == Lower(m) IN
      Contains(PAT_CONNECT, low) \/ Contains(PAT_TIMEOUT, low)

\* batch returned exactly one error entry, for the whole input text
ReturnedWholeTextError ==
    /\ outcome = "returned"
    /\ Len(ret) = 1
    /\ ret[1] = ErrorEntry(sql_query, Str(exc))

\* batch raised DatabaseConnectionError
RaisedConnectionError ==
    /\ outcome = "raised"
    /\ raised.type = "DatabaseConnectionError"

(* -------------------------------- claims ------------------------------- *)
\* C1: the statement calls made on the connection are the splitter's
\* statements in order, one call each, and a call that raised is the last
\* statement call of its batch.
C1_OrderedFailFast ==
    LET sc == StatementCalls IN
      /\ Len(sc) <= Len(statements)
      /\ Len(sc) = i
      /\ \A k \in 1..Len(sc) :
            /\ sc[k].arg = statements[k]
            /\ (k < Len(sc) => sc[k].ok)

\* a finished batch of three statements whose second call raised: the third
\* was never sent
C1_Witness ==
    /\ pc = "done"
    /\ Len(statements) = 3
    /\ Len(StatementCalls) = 2
    /\ StatementCalls[1].ok
    /\ ~StatementCalls[2].ok

\* C2: once a statement's call has raised, commit is never called in that
\* batch, and when the batch has ended rollback has been called.
C2_FailureRollsBack ==
    StatementFailed =>
        /\ CountCalls("commit") = 0
        /\ (pc = "done" => CountCalls("rollback") >= 1)

\* a finished batch whose second statement raised after the first succeeded
C2_Witness ==
    /\ pc = "done"
    /\ StatementFailed
    /\ Len(StatementCalls) = 2
    /\ Len(statements) = 3
    /\ CountCalls("rollback") = 1
    /\ outcome = "returned"
    /\ Len(ret) = 2

\* C3: in a finished batch whose statements all succeeded, commit was called
\* exactly once, right after the last statement's call, and the close of the
\* connection came after it, as the last call before batch ended.
C3_CommitOnce ==
    (pc = "done" /\ split = "ok" /\ ~StatementFailed) =>
        /\ CountCalls("commit") = 1
        /\ Len(calls) > Len(statements) + 1
        /\ \A k \in 1..Len(statements) : IsStatementCall(calls[k])
        /\ calls[Len(statements) + 1].op = "commit"
        /\ calls[Len(calls)].op = "close"

\* two fetches that returned one row each, committed and returned
C3_Witness ==
    /\ pc = "done"
    /\ outcome = "returned"
    /\ Len(statements) = 2
    /\ Len(ret) = 2
    /\ \A k \in 1..2 :
          /\ ret[k].statement_type = FETCH_STATEMENT
          /\ ret[k].row_count = Some(1)
    /\ calls[3] = Call("commit", <<>>, TRUE)

\* C4: the connection of a batch is never closed twice, nothing is called
\* on it after close, and when batch has ended an acquired connection has
\* been closed exactly once (and none was closed when none was acquired).
C4_ClosedExactlyOnce ==
    /\ CountCalls("close") <= 1
    /\ \A k \in 1..Len(calls) : calls[k].op = "close" => k = Len(calls)
    /\ (pc = "done" =>
            CountCalls("close") = (IF acq = "ok" THEN 1 ELSE 0))
    /\ (acq # "ok" => calls = <<>>)

\* a batch that ended after a statement failed and rollback raised too
C4_Witness ==
    /\ pc = "done"
    /\ acq = "ok"
    /\ StatementFailed
    /\ CallFailed("rollback")
    /\ CountCalls("close") = 1

\* C5: a finished batch in which a statement's call raised has returned (not
\* raised) the entries of the statements before it, in order, and then one
\* error entry for the failing statement.
C5_StatementFailureReturned ==
    (pc = "done" /\ StatementFailed) =>
        /\ outcome = "returned"
        /\ Len(ret) = Len(StatementCalls)
        /\ \A k \in 1..Len(ret) :
              /\ ret[k].statement = statements[k]
              /\ (ret[k].statement_type = ERROR_STATEMENT) <=> (k = Len(ret))

\* C6 as stated: a finished batch whose connection could not be acquired
\* (the engine could not be created, or the connect call failed) has raised
\* DatabaseConnectionError, and no statement was sent.
C6_AcquisitionFailureRaises ==
    (pc = "done" /\ acq \in {"engine_failed", "connect_failed"}) =>
        /\ RaisedConnectionError
        /\ StatementCalls = <<>>

\* C6 as amended: a failed connect call makes batch raise
\* DatabaseConnectionError; a failed engine creation does so only when the
\* message of its error contains "connect" or "timeout", and otherwise batch
\* returns one error entry for the whole text; no statement is sent either way.
C6_AcquisitionFailure ==
    (pc = "done" /\ acq \in {"engine_failed", "connect_failed"}) =>
        /\ StatementCalls = <<>>
        /\ IF acq = "connect_failed" \/ MentionsConnectOrTimeout(Str(exc))
           THEN RaisedConnectionError
           ELSE ReturnedWholeTextError

\* the engine could not be created, and batch returned an error entry
C6_Witness ==
    /\ pc = "done"
    /\ acq = "engine_failed"
    /\ ReturnedWholeTextError

ExceptClauseRaised ==
    CallFailed("rollback") \/ (CallFailed("commit") /\ statements = <<>>)

C8_EntriesInInputOrder ==
    (pc = "done" /\ outcome = "returned" /\ split = "ok") =>
        \A k \in 1..Len(ret) :
            /\ k <= Len(statements)
            /\ ret[k].statement = statements[k]

\* the three shapes of an entry
IsFetchShape(e) ==
    /\ DOMAIN e = {"statement", "statement_type", "result", "row_count"}
    /\ e.statement_type = FETCH_STATEMENT
    /\ e.row_count = Some(Len(e.result))

IsExecuteShape(e) ==
    /\ DOMAIN e = {"statement", "statement_type", "result", "row_count"}
    /\ e.statement_type = EXECUTE_STATEMENT
    /\ e.result = TRUE
    /\ e.row_count = None

IsErrorShape(e) ==
    /\ DOMAIN e = {"statement", "statement_type", "error"}
    /\ e.statement_type = ERROR_STATEMENT

C10_ParseErrorRaised ==
    (pc = "done" /\ split = "failed") =>
        /\ outcome = "raised"
        /\ \A k \in 1..Len(calls) : calls[k].op = "close"

\* C10 as amended: a finished batch whose split failed has returned one
\* error entry for the whole text, with the parse error's message (and has
\* raised DatabaseConnectionError instead only when that message contains
\* "connect" or "timeout"); no statement, commit or rollback was sent.
C10_ParseErrorReturned ==
    (pc = "done" /\ split = "failed") =>
        /\ \A k \in 1..Len(calls) : calls[k].op = "close"
        /\ exc.type = "SqlParseError"
        /\ IF MentionsConnectOrTimeout(Str(exc))
           THEN RaisedConnectionError
           ELSE ReturnedWholeTextError

\* the split failed on an open quote and batch returned the error entry
C10_Witness ==
    /\ pc = "done"
    /\ split = "failed"
    /\ sql_query = <<"SELECT", "'">>
    /\ ReturnedWholeTextError
    /\ calls = <<Call("close", <<>>, TRUE)>>

\* C11: a batch that ended because the connect call failed (a connection
\* error, which is retryable) made maxAttempts connect calls before it gave up.
C11_AcquisitionRetried ==
    (pc = "done" /\ acq = "connect_failed") => attempts = maxAttempts

\* C12: when an exception reached batch's handler, batch raised
\* DatabaseConnectionError if the exception is one or its message contains
\* "connect" or "timeout" in any case of the letters, and otherwise returned
\* exactly one error entry, for the whole input text.
C12_HandlerClassifies ==
    (pc = "done" /\ exc # NoException) =>
        IF exc.type = "DatabaseConnectionError"
              \/ MentionsConnectOrTimeout(Str(exc))
        THEN RaisedConnectionError /\ ret = <<>>
        ELSE ReturnedWholeTextError /\ raised = NoException

\* a rollback that raised reached the handler and came back as an entry
C12_Witness ==
    /\ pc = "done"
    /\ CallFailed("rollback")
    /\ exc.type = "DatabaseOperationError"
    /\ ReturnedWholeTextError

\* the calls made on the connection before its close
CallsBeforeClose ==
    {k \in 1..Len(calls) : \E c \in (k + 1)..Len(calls) : calls[c].op = "close"}

\* C13: when the text was split, a close of the connection comes after a
\* commit that returned or after a call of rollback.
C13_FinalizedBeforeClose ==
    (split = "ok" /\ CountCalls("close") > 0) =>
        \E k \in CallsBeforeClose :
            \/ calls[k].op = "commit" /\ calls[k].ok
            \/ calls[k].op = "rollback"

\* every statement succeeded, commit raised, and the connection was closed
C13_Witness ==
    /\ split = "ok"
    /\ Len(statements) = 2
    /\ ~StatementFailed
    /\ CallFailed("commit")
    /\ CountCalls("close") = 1

\* C14: test_connection ends by returning True or False, never by raising:
\* True exactly when a connection was acquired and the probe returned; and a
\* connection it acquired has been closed, once, as the last call on it.
C14_TestConnection ==
    /\ (pc \in {"tc_create", "tc_probe", "tc_exit", "tc_except", "tc_done"}
            => outcome = "none" /\ raised = NoException)
    /\ (pc = "tc_done" =>
            /\ tc_result \in {"True", "False"}
            /\ (tc_result = "True") <=>
                  (acq = "ok" /\ calls[1] = Call("fetch_one", PROBE_SQL, TRUE))
            /\ IF acq = "ok"
               THEN /\ Len(calls) = 2
                    /\ calls[1].op = "fetch_one"
                    /\ calls[2].op = "close"
               ELSE calls = <<>>)

\* the probe raised on an acquired connection: closed, and False returned
C14_Witness ==
    /\ pc = "tc_done"
    /\ acq = "ok"
    /\ CallFailed("fetch_one")
    /\ CountCalls("close") = 1
    /\ tc_result = "False"

\* the engines that were created and not disposed
LiveEngines ==
    {e \in 1..created : e \notin disposed}

\* C15: with several threads in batch, create_connection,
\* create_connection_pool and close, at most one engine that was created is
\* not yet disposed, and it is the one self._engine holds (or the one a thread
\* is about to store there): no engine is created beside another, and none is
\* lost to close().
C15_OneEngineNoneLost ==
    /\ Cardinality(LiveEngines) <= 1
    /\ \A e \in LiveEngines :
          \/ self_engine = e
          \/ \E t \in Threads : tpc[t] = "assign" /\ new_engine[t] = e
====
